---- MODULE Spec2Model ----
(***************************************************************************)
(* Cyberbrain execution flow (cyberbrain/flow.py): steps (Node) with their *)
(* TrackingMetadata, the tracked-identifier set, the variable-change diff  *)
(* between two steps, the pre-return diff, and Flow construction.          *)
(***************************************************************************)
EXTENDS Integers, Sequences, FiniteSets, TLC

VARIABLES
    nodes,  \* constructed Node objects: node name -> its fields (Node + metadata)
    heap,   \* the dict objects of the traced program: reference -> mapping ID -> value
    exc     \* how the last call ended: "ok", or the name of the exception it raised

vars == <<nodes, heap, exc>>

----------------------------------------------------------------------------
(* Bounds and input universes *)

\* longest var_appearances / var_modifications list a step may reach
MaxEvents == 2

\* Node names in construction order: name = str(next(_name_gen))
NodeNames == <<"0", "1">>
NodeIds == {NodeNames[i] : i \in DOMAIN NodeNames}
Frames == {1, 2}
Values == {1, 2}

\* Python's None; optional values are None or a one-element tuple
None == <<>>
Some(v) == <<v>>

ID(name, frame_id) == <<name, frame_id>>

\* identifiers the tracer puts in snapshots
DataIds == {ID("x", 1), ID("x", 2)}
\* identifiers callers ask to track (one of them is in no snapshot)
AskIds == DataIds \cup {ID("y", 1)}
\* the argument lists of add_tracking: one id, or all of them
AskSets == {{id} : id \in AskIds} \cup {AskIds}

\* all dicts ID -> value over DataIds
Snapshots == UNION {[D -> Values] : D \in SUBSET DataIds}

----------------------------------------------------------------------------
(* Source text of a step, as the tree ast.parse builds from it *)

Name(id) == [kind |-> "Name", id |-> id]
Attribute(value, attr) == [kind |-> "Attribute", value |-> value, attr |-> attr]
Call(func, args) == [kind |-> "Call", func |-> func, args |-> args]
Expr(value) == [kind |-> "Expr", value |-> value]
Assign(value) == [kind |-> "Assign", value |-> value]
Constant == [kind |-> "Constant"]
BinOp == [kind |-> "BinOp"]

\* cyberbrain.register(<args>)
MarkerCall(args) == Expr(Call(Attribute(Name("cyberbrain"), "register"), args))

SrcAssign == Assign(Constant)                                   \* x = 1
SrcPlainCall == Expr(Call(Name("register"), <<Name("x")>>))     \* register(x)
SrcOtherModule ==                                               \* foo.register(x)
    Expr(Call(Attribute(Name("foo"), "register"), <<Name("x")>>))
SrcMarkerX == MarkerCall(<<Name("x")>>)                         \* cyberbrain.register(x)
SrcMarkerY == MarkerCall(<<Name("y")>>)                         \* cyberbrain.register(y)
SrcMarkerExpr == MarkerCall(<<BinOp>>)                          \* cyberbrain.register(1+2)
SrcMarkerTwo == MarkerCall(<<Name("x"), Name("y")>>)            \* cyberbrain.register(x, y)
SrcMarkerNoArg == MarkerCall(<<>>)                              \* cyberbrain.register()

Sources == {SrcAssign, SrcPlainCall, SrcOtherModule, SrcMarkerX, SrcMarkerY,
            SrcMarkerExpr, SrcMarkerTwo, SrcMarkerNoArg}

----------------------------------------------------------------------------
(* Change events *)

VarAppearance(id, value) == [id |-> id, value |-> value]
VarModification(id, old_value, new_value) ==
    [id |-> id, old_value |-> old_value, new_value |-> new_value]
VarSwitch(arg_id, param_id, value) ==
    [arg_id |-> arg_id, param_id |-> param_id, value |-> value]

\* utils.has_diff: deep inequality of two values
has_diff(a, b) == a # b

----------------------------------------------------------------------------
(* References into the heap: the dict objects a step is constructed from *)

DataRef(n) == <<n, "data">>
ReturnRef(n) == <<n, "data_before_return">>

\* the mapping a step sees through its data attribute
DataOf(n) == heap[nodes[n].data]

\* Flow.ROOT, the "no predecessor" marker
ROOT == <<"ROOT">>

----------------------------------------------------------------------------
(* TrackingMetadata *)

\* arg_to_param, built in __init__ when param_to_arg is given and not empty
ArgToParam(param_to_arg) ==
    IF param_to_arg = None \/ DOMAIN param_to_arg[1] = {} THEN None
    ELSE LET m == param_to_arg[1]
             args == UNION {m[p] : p \in DOMAIN m}
         IN  Some([a \in args |-> CHOOSE p \in DOMAIN m : a \in m[p]])

\* get_args(): every argument identifier of param_to_arg
get_args(n) ==
    LET m == nodes[n].param_to_arg[1] IN UNION {m[p] : p \in DOMAIN m}

\* add_tracking without the membership test
TrackingAfterAddUnchecked(tracking, data, new_ids) == tracking \cup new_ids

\* the loop of add_tracking: an id is added only if it is a key of data
TrackingAfterAdd(tracking, data, new_ids) ==
    tracking \cup {new_id \in new_ids : new_id \in DOMAIN data}

\* the fields of a freshly constructed Node
NewNodeFields(n, kw) ==
    [frame_id |-> kw.frame_id,
     code_ast |-> kw.code[1],
     param_to_arg |-> kw.param_to_arg,
     arg_to_param |-> ArgToParam(kw.param_to_arg),
     tracking |-> {},
     var_appearances |-> <<>>,
     var_modifications |-> <<>>,
     var_switches |-> <<>>,
     data |-> DataRef(n),
     data_before_return |->
         IF kw.data_before_return = None THEN None ELSE ReturnRef(n),
     prev |-> None]

\* What the tracer passes to Node(frame_id, **kwargs).
\* A plain step of frame 1: any snapshot
PlainInputs ==
    [frame_id : {1}, data : Snapshots, code : {Some(SrcAssign)},
     param_to_arg : {None}, data_before_return : {None}]

\* The last step of the callee's scope (frame 2): a snapshot taken before the return
ReturnInputs ==
    [frame_id : {2}, data : {[id \in DataIds |-> 1]}, code : {Some(SrcAssign)},
     param_to_arg : {None}, data_before_return : {Some(s) : s \in Snapshots}]

\* A step whose source is a call (or no source at all)
TargetInputs ==
    [frame_id : {1}, data : {[id \in {ID("x", 1)} |-> 1]},
     code : {Some(src) : src \in Sources \ {SrcAssign}} \cup {None},
     param_to_arg : {None}, data_before_return : {None}]
    \cup
    [frame_id : {2}, data : {[id \in {ID("x", 1)} |-> 1]}, code : {Some(SrcMarkerX)},
     param_to_arg : {None}, data_before_return : {None}]

\* The entry step of a callee (frame 2) whose parameter x is bound to the
\* caller's argument x of frame 1
EntryInputs ==
    [frame_id : {2}, data : {[id \in DataIds |-> 1]}, code : {Some(SrcAssign)},
     param_to_arg : {Some([p \in {ID("x", 2)} |-> {ID("x", 1)}])},
     data_before_return : {None}]

NodeInputs == PlainInputs \cup ReturnInputs \cup TargetInputs \cup EntryInputs

Init ==
    /\ nodes = <<>>
    /\ heap = <<>>
    /\ exc = "ok"

\* Node(frame_id, **kwargs): ValueError when neither code_str nor code_ast is given
NewNode(n, kw) ==
    /\ Cardinality(DOMAIN nodes) < Len(NodeNames)
    /\ n = NodeNames[Cardinality(DOMAIN nodes) + 1]
    /\ IF kw.code = None
       THEN /\ UNCHANGED <<nodes, heap>>
            /\ exc' = "ValueError"
       ELSE /\ nodes' = nodes @@ (n :> NewNodeFields(n, kw))
            /\ heap' = IF kw.data_before_return = None
                       THEN heap @@ (DataRef(n) :> kw.data)
                       ELSE heap @@ (DataRef(n) :> kw.data)
                                 @@ (ReturnRef(n) :> kw.data_before_return[1])
            /\ exc' = "ok"

\* node.add_tracking(*new_ids)
add_tracking(n, new_ids) ==
    /\ n \in DOMAIN nodes
    /\ nodes' = [nodes EXCEPT ![n].tracking = TrackingAfterAdd(@, DataOf(n), new_ids)]
    /\ exc' = "ok"
    /\ UNCHANGED heap

\* node.sync_tracking_with(other)
sync_tracking_with(n, other) ==
    /\ n \in DOMAIN nodes
    /\ other \in DOMAIN nodes
    /\ n # other
    /\ nodes' = [nodes EXCEPT
                   ![n].tracking = TrackingAfterAdd(@, DataOf(n), nodes[other].tracking)]
    /\ exc' = "ok"
    /\ UNCHANGED heap

----------------------------------------------------------------------------
(* Node: the diff of two steps and the pre-return diff *)

\* the orders in which a for loop may visit the members of a set
Orders(S) ==
    {ord \in [1..Cardinality(S) -> S] :
        \A i, j \in 1..Cardinality(S) : i # j => ord[i] # ord[j]}

\* a comparison of the new value with itself
IsModifiedSelfCompare(self_data, other_data, var_id) ==
    has_diff(other_data[var_id], other_data[var_id])

\* the test of the elif branch: utils.has_diff(new_value, old_value)
IsModified(self_data, other_data, var_id) ==
    has_diff(other_data[var_id], self_data[var_id])

\* the loop of get_and_update_var_changes over the ids in visiting order ord:
\* the events added before the loop ends or raises
RECURSIVE VarChanges(_, _, _)
VarChanges(self_data, other_data, ord) ==
    IF ord = <<>> THEN [apps |-> <<>>, mods |-> <<>>, raised |-> "ok"]
    ELSE LET var_id == Head(ord) IN
         IF var_id \notin DOMAIN other_data
         THEN [apps |-> <<>>, mods |-> <<>>, raised |-> "KeyError"]
         ELSE LET new_value == other_data[var_id]
                  rest == VarChanges(self_data, other_data, Tail(ord))
              IN  IF var_id \notin DOMAIN self_data
                  THEN [rest EXCEPT !.apps = <<VarAppearance(var_id, new_value)>> \o @]
                  ELSE IF IsModified(self_data, other_data, var_id)
                  THEN [rest EXCEPT !.mods =
                          <<VarModification(var_id, self_data[var_id], new_value)>> \o @]
                  ELSE rest

\* a diff that visits every key of other's snapshot
DiffIdsAllKeys(self, other) == DOMAIN DataOf(other)

\* the ids the diff of (self, other) visits
DiffIds(self, other) == nodes[other].tracking

\* a diff that stores its events on the later step
DiffOwnerLater(self, other) == other

\* the node whose metadata the diff of (self, other) adds its events to
DiffOwner(self, other) == self

\* self.get_and_update_var_changes(other), iterated to its end
get_and_update_var_changes(self, other) ==
    /\ self \in DOMAIN nodes
    /\ other \in DOMAIN nodes
    /\ self # other
    /\ IF nodes[self].frame_id # nodes[other].frame_id
       THEN /\ UNCHANGED nodes
            /\ exc' = "AssertionError"
       ELSE \E ord \in Orders(DiffIds(self, other)) :
              LET r == VarChanges(DataOf(self), DataOf(other), ord)
                  owner == DiffOwner(self, other)
              IN  /\ Len(nodes[owner].var_appearances) + Len(r.apps) <= MaxEvents
                  /\ Len(nodes[owner].var_modifications) + Len(r.mods) <= MaxEvents
                  /\ nodes' = [nodes EXCEPT
                                 ![owner].var_appearances = @ \o r.apps,
                                 ![owner].var_modifications = @ \o r.mods]
                  /\ exc' = r.raised
    /\ UNCHANGED heap

\* a modification with old and new value exchanged
ReturnModificationSwapped(var_id, old_value, new_value) ==
    VarModification(var_id, new_value, old_value)

\* the event update_var_changes_before_return builds for a changed value
ReturnModification(var_id, old_value, new_value) ==
    VarModification(var_id, old_value, new_value)

\* the loop of update_var_changes_before_return; data_before_return is None or
\* a reference, and the check for None before the loop only passes
RECURSIVE ChangesBeforeReturn(_, _, _)
ChangesBeforeReturn(data, data_before_return, ord) ==
    IF ord = <<>> THEN [apps |-> <<>>, mods |-> <<>>, raised |-> "ok"]
    ELSE LET var_id == Head(ord) IN
         IF data_before_return = None
         THEN [apps |-> <<>>, mods |-> <<>>, raised |-> "TypeError"]
         ELSE IF var_id \notin DOMAIN heap[data_before_return]
         THEN [apps |-> <<>>, mods |-> <<>>, raised |-> "KeyError"]
         ELSE LET new_value == heap[data_before_return][var_id]
                  rest == ChangesBeforeReturn(data, data_before_return, Tail(ord))
              IN  IF var_id \notin DOMAIN data
                  THEN [rest EXCEPT !.apps = <<VarAppearance(var_id, new_value)>> \o @]
                  ELSE IF has_diff(new_value, data[var_id])
                  THEN [rest EXCEPT !.mods =
                          <<ReturnModification(var_id, data[var_id], new_value)>> \o @]
                  ELSE rest

\* self.update_var_changes_before_return()
update_var_changes_before_return(self) ==
    /\ self \in DOMAIN nodes
    /\ \E ord \in Orders(nodes[self].tracking) :
         LET r == ChangesBeforeReturn(DataOf(self), nodes[self].data_before_return, ord)
         IN  /\ Len(nodes[self].var_appearances) + Len(r.apps) <= MaxEvents
             /\ Len(nodes[self].var_modifications) + Len(r.mods) <= MaxEvents
             /\ nodes' = [nodes EXCEPT
                            ![self].var_appearances = @ \o r.apps,
                            ![self].var_modifications = @ \o r.mods]
             /\ exc' = r.raised
    /\ UNCHANGED heap

----------------------------------------------------------------------------
(* Flow *)

HasAttr(tree, attr) == attr \in DOMAIN tree

\* _update_target_id up to the call of add_tracking: the name of the argument of
\* the register call, or the exception an attribute access, the assert or the
\* index raises.  stmt is register_call_ast.body[0]
TargetName(stmt) ==
    LET Raise(e) == [raised |-> e, name |-> ""] IN
    IF ~HasAttr(stmt, "value") THEN Raise("AttributeError")
    ELSE IF ~HasAttr(stmt.value, "func") THEN Raise("AttributeError")
    ELSE IF ~HasAttr(stmt.value.func, "value") THEN Raise("AttributeError")
    ELSE IF ~HasAttr(stmt.value.func.value, "id") THEN Raise("AttributeError")
    ELSE IF stmt.value.func.value.id # "cyberbrain" THEN Raise("AssertionError")
    ELSE IF Len(stmt.value.args) = 0 THEN Raise("IndexError")
    ELSE IF ~HasAttr(stmt.value.args[1], "id") THEN Raise("AttributeError")
    ELSE [raised |-> "ok", name |-> stmt.value.args[1].id]

\* an identifier built with the frame of the start node
TargetIdOfStart(name, start, target) == ID(name, nodes[start].frame_id)

\* the identifier _update_target_id builds for the argument name
TargetId(name, start, target) == ID(name, nodes[target].frame_id)

\* start.prev after Flow.__init__
StartPrev == ROOT

\* Flow(start, target)
Flow(start, target) ==
    /\ start \in DOMAIN nodes
    /\ target \in DOMAIN nodes
    /\ LET r == TargetName(nodes[target].code_ast)
           linked == [nodes EXCEPT ![start].prev = StartPrev]
       IN  /\ nodes' =
                IF r.raised = "ok"
                THEN [linked EXCEPT ![target].tracking =
                        TrackingAfterAdd(@, DataOf(target), {TargetId(r.name, start, target)})]
                ELSE linked
           /\ exc' = r.raised
    /\ UNCHANGED heap

Next ==
    \/ \E n \in NodeIds, kw \in NodeInputs : NewNode(n, kw)
    \/ \E n \in NodeIds, new_ids \in AskSets : add_tracking(n, new_ids)
    \/ \E n \in NodeIds, other \in NodeIds : sync_tracking_with(n, other)
    \/ \E self \in NodeIds, other \in NodeIds : get_and_update_var_changes(self, other)
    \/ \E self \in NodeIds : update_var_changes_before_return(self)
    \/ \E start \in NodeIds, target \in NodeIds : Flow(start, target)

Spec == Init /\ [][Next]_vars

----------------------------------------------------------------------------
(* The traced program keeps running: it owns the dict objects it handed to  *)
(* the steps and may assign or delete a key of any of them.                 *)

MutateLive(ref, id, value) ==
    /\ ref \in DOMAIN heap
    /\ heap' = [heap EXCEPT ![ref] = (id :> value) @@ @]
    /\ UNCHANGED <<nodes, exc>>

DeleteLive(ref, id) ==
    /\ ref \in DOMAIN heap
    /\ id \in DOMAIN heap[ref]
    /\ heap' = [heap EXCEPT ![ref] = [k \in DOMAIN @ \ {id} |-> @[k]]]
    /\ UNCHANGED <<nodes, exc>>

Refs == {DataRef(n) : n \in NodeIds} \cup {ReturnRef(n) : n \in NodeIds}

\* the live program has one variable, x of frame 1
LiveIds == {ID("x", 1)}
LiveInputs == {kw \in PlainInputs : DOMAIN kw.data \subseteq LiveIds}

NextLive ==
    \/ \E n \in NodeIds, kw \in LiveInputs : NewNode(n, kw)
    \/ \E n \in NodeIds, new_ids \in AskSets : add_tracking(n, new_ids)
    \/ \E self \in NodeIds, other \in NodeIds : get_and_update_var_changes(self, other)
    \/ \E ref \in Refs, id \in LiveIds, value \in Values : MutateLive(ref, id, value)
    \/ \E ref \in Refs, id \in LiveIds : DeleteLive(ref, id)

SpecLive == Init /\ [][NextLive]_vars

----------------------------------------------------------------------------
(* Properties *)

\* the events a step adds to a list
Appended(old, new) == SubSeq(new, Len(old) + 1, Len(new))
Extends(old, new) == Len(old) <= Len(new) /\ SubSeq(new, 1, Len(old)) = old
EventsFor(events, id) == {i \in DOMAIN events : events[i].id = id}
Range(events) == {events[i] : i \in DOMAIN events}

EventLists(n) ==
    <<nodes[n].var_appearances, nodes[n].var_modifications, nodes[n].var_switches>>
EventListsAfter(n) ==
    <<nodes'[n].var_appearances, nodes'[n].var_modifications, nodes'[n].var_switches>>
NewAppearances(n) == Appended(nodes[n].var_appearances, nodes'[n].var_appearances)
NewModifications(n) == Appended(nodes[n].var_modifications, nodes'[n].var_modifications)
NewSwitches(n) == Appended(nodes[n].var_switches, nodes'[n].var_switches)
NewEventIds(n) ==
    {e.id : e \in Range(NewAppearances(n))} \cup {e.id : e \in Range(NewModifications(n))}
SameFrame(a, b) == nodes[a].frame_id = nodes[b].frame_id

\* a target source that matches the marker pattern: the marker call with one
\* bare-identifier argument
IsMarkerPattern(src) == src \in {SrcMarkerX, SrcMarkerY}

TrackingWithinData ==
    \A n \in DOMAIN nodes : nodes[n].tracking \subseteq DOMAIN DataOf(n)

AddTrackingFilters ==
    /\ \A n \in NodeIds, new_ids \in AskSets :
         add_tracking(n, new_ids) =>
            /\ exc' = "ok"
            /\ nodes'[n].tracking =
                 nodes[n].tracking \cup (new_ids \cap DOMAIN DataOf(n))
    /\ \A n \in NodeIds, other \in NodeIds :
         sync_tracking_with(n, other) =>
            /\ exc' = "ok"
            /\ nodes'[n].tracking =
                 nodes[n].tracking \cup (nodes[other].tracking \cap DOMAIN DataOf(n))

\* C1: in every reachable state the tracked set of every step is a subset of
\* the keys of the step's data snapshot; add_tracking and sync_tracking_with
\* add exactly the offered ids that are keys of data and drop the others
\* without an error.
C1_TrackingSubsetOfData == []TrackingWithinData /\ [][AddTrackingFilters]_vars

\* C1 witness: a step has synced with another step that tracks an id missing
\* from its own data, and tracks exactly the offered ids it has in data.
C1_Witness ==
    \E n \in DOMAIN nodes, other \in DOMAIN nodes :
        /\ n # other
        /\ nodes[n].tracking # {}
        /\ ~(nodes[other].tracking \subseteq DOMAIN DataOf(n))
        /\ nodes[n].tracking = nodes[other].tracking \cap DOMAIN DataOf(n)

\* C2 as stated: every event recorded in a step's var_appearances,
\* var_modifications or var_switches has an identifier in that same step's
\* tracking set.
C2_EventIdsInOwnTracking ==
    \A n \in DOMAIN nodes :
        /\ \A e \in Range(nodes[n].var_appearances) : e.id \in nodes[n].tracking
        /\ \A e \in Range(nodes[n].var_modifications) : e.id \in nodes[n].tracking
        /\ \A e \in Range(nodes[n].var_switches) : e.param_id \in nodes[n].tracking

\* C2 amended: every event a diff of (self, other) records has an identifier
\* in the tracking set of other, the later step, and is recorded on no step
\* but self; every event the pre-return diff of a step records has an
\* identifier in that step's own tracking set.
C2_EventIdsInTrackingOfLater ==
    [][/\ \A self \in NodeIds, other \in NodeIds :
            get_and_update_var_changes(self, other) =>
                \A n \in DOMAIN nodes : NewEventIds(n) \subseteq nodes[other].tracking
       /\ \A self \in NodeIds :
            update_var_changes_before_return(self) =>
                \A n \in DOMAIN nodes : NewEventIds(n) \subseteq nodes[self].tracking]_vars

\* C2 witness: a step that tracks nothing holds an appearance whose identifier
\* another step of its frame tracks.
C2_Witness ==
    \E self \in DOMAIN nodes, other \in DOMAIN nodes :
        /\ self # other
        /\ SameFrame(self, other)
        /\ nodes[self].tracking = {}
        /\ \E e \in Range(nodes[self].var_appearances) : e.id \in nodes[other].tracking

\* C3 as stated: a diff of a same-scope pair (earlier, later) appends its
\* events to the later step and leaves the three event lists of the earlier
\* step unchanged.
C3_EventsStoredOnLater ==
    [][\A self \in NodeIds, other \in NodeIds :
          get_and_update_var_changes(self, other) /\ SameFrame(self, other) =>
              /\ EventListsAfter(self) = EventLists(self)
              /\ Extends(nodes[other].var_appearances, nodes'[other].var_appearances)
              /\ Extends(nodes[other].var_modifications, nodes'[other].var_modifications)]_vars

\* C3 amended: a diff of a same-scope pair (self = earlier, other = later)
\* appends its events to the earlier step, whose lists grow when a tracked id
\* of the later step is new or changed, and leaves the three event lists of
\* the later step unchanged.
C3_EventsStoredOnEarlier ==
    [][\A self \in NodeIds, other \in NodeIds :
          get_and_update_var_changes(self, other) /\ SameFrame(self, other) =>
              /\ EventListsAfter(other) = EventLists(other)
              /\ Extends(nodes[self].var_appearances, nodes'[self].var_appearances)
              /\ Extends(nodes[self].var_modifications, nodes'[self].var_modifications)
              /\ nodes'[self].var_switches = nodes[self].var_switches
              /\ (\E id \in nodes[other].tracking :
                     \/ id \notin DOMAIN DataOf(self)
                     \/ DataOf(self)[id] # DataOf(other)[id])
                 => EventListsAfter(self) # EventLists(self)]_vars

\* C3 witness: the earlier step tracks nothing and holds events, the later
\* step tracks their identifiers and holds none.
C3_Witness ==
    \E self \in DOMAIN nodes, other \in DOMAIN nodes :
        /\ self # other
        /\ SameFrame(self, other)
        /\ nodes[self].tracking = {}
        /\ nodes[self].var_modifications # <<>>
        /\ \A e \in Range(nodes[self].var_modifications) : e.id \in nodes[other].tracking
        /\ EventLists(other) = <<<<>>, <<>>, <<>>>>

\* C4: a diff of a same-scope pair ends without an error and records, for
\* every id the later step tracks, exactly one Appearance(id, later value) when
\* the earlier snapshot has no such key, exactly one Modification(id, earlier
\* value, later value) when it has the key with an unequal value, and nothing
\* when the values are equal; it records nothing for any other id.
C4_DiffEvents ==
    [][\A self \in NodeIds, other \in NodeIds :
          get_and_update_var_changes(self, other) /\ SameFrame(self, other) =>
              /\ exc' = "ok"
              /\ \A id \in AskIds :
                   LET apps == NewAppearances(self)
                       mods == NewModifications(self)
                       a == EventsFor(apps, id)
                       m == EventsFor(mods, id)
                   IN  IF id \in nodes[other].tracking /\ id \notin DOMAIN DataOf(self)
                       THEN /\ Cardinality(a) = 1
                            /\ m = {}
                            /\ \A i \in a : apps[i] = VarAppearance(id, DataOf(other)[id])
                       ELSE IF /\ id \in nodes[other].tracking
                               /\ DataOf(self)[id] # DataOf(other)[id]
                       THEN /\ a = {}
                            /\ Cardinality(m) = 1
                            /\ \A i \in m : mods[i] =
                                 VarModification(id, DataOf(self)[id], DataOf(other)[id])
                       ELSE a = {} /\ m = {}]_vars

\* C4 witness: one diff has recorded an appearance of one tracked id and a
\* modification of another on a step that tracks nothing itself.
C4_Witness ==
    \E self \in DOMAIN nodes, other \in DOMAIN nodes, id1 \in DataIds, id2 \in DataIds :
        /\ self # other
        /\ SameFrame(self, other)
        /\ id1 # id2
        /\ nodes[self].tracking = {}
        /\ nodes[other].tracking = {id1, id2}
        /\ DOMAIN DataOf(self) = {id2}
        /\ nodes[self].var_appearances = <<VarAppearance(id1, DataOf(other)[id1])>>
        /\ nodes[self].var_modifications =
             <<VarModification(id2, DataOf(self)[id2], DataOf(other)[id2])>>
        /\ exc = "ok"

\* the bindings of a call-entry step: <<parameter, argument>> pairs
Bindings(n) ==
    IF nodes[n].param_to_arg = None THEN {}
    ELSE {<<nodes[n].arg_to_param[1][arg], arg>> : arg \in get_args(n)}

\* C5 as stated: when the later step of a diff is a call-entry step that binds
\* parameter param_id to argument arg_id, the earlier step tracks arg_id, the
\* later step tracks param_id and the earlier snapshot has no value for
\* param_id, the diff records Switch(arg_id, param_id, value) in var_switches
\* and records no Appearance of param_id.
C5_SwitchAtCallBoundary ==
    [][\A self \in NodeIds, other \in NodeIds :
          get_and_update_var_changes(self, other) =>
              \A b \in Bindings(other) :
                  (/\ b[2] \in nodes[self].tracking
                   /\ b[1] \in nodes[other].tracking
                   /\ b[1] \notin DOMAIN DataOf(self))
                  => /\ \E n \in DOMAIN nodes :
                          VarSwitch(b[2], b[1], DataOf(other)[b[1]])
                              \in Range(NewSwitches(n))
                     /\ \A n \in DOMAIN nodes :
                          EventsFor(NewAppearances(n), b[1]) = {}]_vars

\* C5 failing case: a call-entry step tracks its parameter, the earlier step
\* tracks the bound argument and has no value for the parameter.
C5_FailingCase ==
    \E self \in DOMAIN nodes, other \in DOMAIN nodes :
        /\ self # other
        /\ \E b \in Bindings(other) :
              /\ b[2] \in nodes[self].tracking
              /\ b[1] \in nodes[other].tracking
              /\ b[1] \notin DOMAIN DataOf(self)

\* the snapshot a step sees through its data_before_return attribute
ReturnDataOf(n) == heap[nodes[n].data_before_return]

\* the modification the pre-return diff owes for a tracked id
OwedBeforeReturn(n, id) ==
    /\ id \in nodes[n].tracking
    /\ id \in DOMAIN ReturnDataOf(n)
    /\ DataOf(n)[id] # ReturnDataOf(n)[id]

OthersUnchanged(n) == \A m \in DOMAIN nodes \ {n} : nodes'[m] = nodes[m]

\* C6 as stated: on a step whose data_before_return is set, the pre-return
\* diff records, for every tracked id, Modification(id, data[id],
\* data_before_return[id]) when the two values are unequal and nothing when
\* they are equal; it records no Switch and changes no other step.
C6_PreReturnModifications ==
    [][\A self \in NodeIds :
          (/\ update_var_changes_before_return(self)
           /\ nodes[self].data_before_return # None) =>
              /\ OthersUnchanged(self)
              /\ NewSwitches(self) = <<>>
              /\ \A id \in AskIds :
                   LET mods == NewModifications(self)
                       m == EventsFor(mods, id)
                   IN  IF OwedBeforeReturn(self, id)
                       THEN /\ Cardinality(m) = 1
                            /\ \A i \in m : mods[i] =
                                 VarModification(id, DataOf(self)[id], ReturnDataOf(self)[id])
                       ELSE m = {}]_vars

\* C6 amended: on a step whose data_before_return is set and has every
\* tracked id as a key, the pre-return diff ends without an error and records
\* exactly the modifications of C6; when a tracked id is not a key of
\* data_before_return it raises KeyError, having recorded at most the
\* modifications owed for the ids visited before.  In both cases it records no
\* Appearance and no Switch and changes no other step.
C6_PreReturnDiff ==
    [][\A self \in NodeIds :
          (/\ update_var_changes_before_return(self)
           /\ nodes[self].data_before_return # None) =>
              /\ OthersUnchanged(self)
              /\ NewSwitches(self) = <<>>
              /\ NewAppearances(self) = <<>>
              /\ exc' = IF nodes[self].tracking \subseteq DOMAIN ReturnDataOf(self)
                        THEN "ok" ELSE "KeyError"
              /\ \A id \in AskIds :
                   LET mods == NewModifications(self)
                       m == EventsFor(mods, id)
                   IN  /\ Cardinality(m) <= 1
                       /\ m # {} => OwedBeforeReturn(self, id)
                       /\ \A i \in m : mods[i] =
                            VarModification(id, DataOf(self)[id], ReturnDataOf(self)[id])
                       /\ (exc' = "ok" /\ OwedBeforeReturn(self, id)) => m # {}]_vars

\* C6 witness: the only step there is tracks two ids, both keys of its
\* data_before_return, one changed and one not, and holds exactly the
\* modification of the changed one.
C6_Witness ==
    \E id1 \in DataIds, id2 \in DataIds :
        /\ DOMAIN nodes = {"0"}
        /\ nodes["0"].data_before_return # None
        /\ id1 # id2
        /\ nodes["0"].tracking = {id1, id2}
        /\ {id1, id2} \subseteq DOMAIN ReturnDataOf("0")
        /\ DataOf("0")[id2] = ReturnDataOf("0")[id2]
        /\ nodes["0"].var_modifications =
             <<VarModification(id1, DataOf("0")[id1], ReturnDataOf("0")[id1])>>
        /\ DataOf("0")[id1] # ReturnDataOf("0")[id1]
        /\ nodes["0"].var_appearances = <<>>
        /\ exc = "ok"

\* C7 as stated: after Flow(start, target) on a target whose source is the
\* marker call with one bare-identifier argument, construction has succeeded,
\* start.prev is ROOT and ID(name, target.frame_id) is in target.tracking.
C7_TargetTracked ==
    [][\A start \in NodeIds, target \in NodeIds :
          (/\ Flow(start, target)
           /\ IsMarkerPattern(nodes[target].code_ast)) =>
              /\ exc' = "ok"
              /\ nodes'[start].prev = ROOT
              /\ ID(nodes[target].code_ast.value.args[1].id, nodes[target].frame_id)
                    \in nodes'[target].tracking]_vars

\* C7 amended: after Flow(start, target) on such a target, construction has
\* succeeded and start.prev is ROOT; ID(name, target.frame_id) is in
\* target.tracking if it is a key of target.data, and otherwise it is dropped
\* and target.tracking is as before.
C7_TargetTrackedIfInData ==
    [][\A start \in NodeIds, target \in NodeIds :
          (/\ Flow(start, target)
           /\ IsMarkerPattern(nodes[target].code_ast)) =>
              LET id == ID(nodes[target].code_ast.value.args[1].id,
                           nodes[target].frame_id)
              IN  /\ exc' = "ok"
                  /\ nodes'[start].prev = ROOT
                  /\ nodes'[target].tracking =
                       IF id \in DOMAIN DataOf(target)
                       THEN nodes[target].tracking \cup {id}
                       ELSE nodes[target].tracking]_vars

\* C7 witness: a Flow was built from a start step of another frame; the target
\* tracks exactly the identifier named in its marker call.
C7_Witness ==
    \E start \in DOMAIN nodes, target \in DOMAIN nodes :
        /\ ~SameFrame(start, target)
        /\ nodes[start].prev = ROOT
        /\ nodes[target].prev = None
        /\ nodes[target].code_ast = SrcMarkerX
        /\ nodes[target].tracking = {ID("x", nodes[target].frame_id)}
        /\ exc = "ok"

\* C8 as stated: Flow(start, target) on a target whose source does not match
\* the marker pattern fails with MalformedTargetError and adds nothing to
\* target.tracking.
C8_MalformedTargetError ==
    [][\A start \in NodeIds, target \in NodeIds :
          (/\ Flow(start, target)
           /\ ~IsMarkerPattern(nodes[target].code_ast)) =>
              /\ exc' = "MalformedTargetError"
              /\ nodes'[target].tracking = nodes[target].tracking]_vars

\* C8, the part on success alone: Flow(start, target) never succeeds on a
\* target whose source does not match the marker pattern.
C8_NeverSucceedsOnMismatch ==
    [][\A start \in NodeIds, target \in NodeIds :
          (/\ Flow(start, target)
           /\ ~IsMarkerPattern(nodes[target].code_ast)) => exc' # "ok"]_vars

\* C9 as stated: once a snapshot is attached to a step, a mutation of the live
\* mapping it was built from does not change the snapshot the step holds.
C9_SnapshotImmutable ==
    [][\A n \in DOMAIN nodes : heap'[nodes[n].data] = heap[nodes[n].data]]_vars

\* C9, the part on diff results: the events a diff of two steps yields are
\* the same before and after any step of the live program.
C9_DiffResultStable ==
    [][\A self \in DOMAIN nodes, other \in DOMAIN nodes :
          (nodes' = nodes /\ nodes[other].tracking \subseteq DOMAIN DataOf(other)) =>
              \A ord \in Orders(nodes[other].tracking) :
                  VarChanges(heap'[nodes[self].data], heap'[nodes[other].data], ord)
                    = VarChanges(DataOf(self), DataOf(other), ord)]_vars

\* C10 as stated: on a step whose data_before_return is None the pre-return
\* diff ends without an error and leaves the three event lists unchanged,
\* whatever the step tracks.
C10_NoReturnSnapshotNoError ==
    [][\A self \in NodeIds :
          (/\ update_var_changes_before_return(self)
           /\ nodes[self].data_before_return = None) =>
              /\ exc' = "ok"
              /\ EventListsAfter(self) = EventLists(self)]_vars

====
